---- MODULE Spec2Model ----
(***************************************************************************)
(* Model of fast-float-to-integer: conversion of f32/f64 values to the ten *)
(* integer types through one of three compile-time selected back-ends.     *)
(*                                                                         *)
(* Numbers keep their real widths.  A magnitude is the finite set of the   *)
(* positions of its one-bits: 300 = 2^8+2^5+2^3+2^2 is {8,5,3,2}, 0.5 is   *)
(* {-1}.  A float is a class, a sign and a magnitude; an integer of width  *)
(* w is the set of one-bits of its two's complement pattern, a subset of   *)
(* 0..w-1.  Bitwise or/and are union/intersection, narrowing keeps the low *)
(* positions.                                                              *)
(***************************************************************************)
EXTENDS Integers, FiniteSets, Sequences

(***************************************************************************)
(* Bounds of the explored inputs.                                          *)
(***************************************************************************)
\* powers of two 2^0 .. 2^(MaxExponent-1) seed the inputs (tests/test.rs:100)
MaxExponent == 70
\* integer offsets -MaxOffset..MaxOffset are added to each seed
MaxOffset == 2
\* number of next_after steps taken on each side of each seed
MaxNeighbors == 2

(***************************************************************************)
(* Magnitudes: exact arithmetic on sets of bit positions.                  *)
(***************************************************************************)
MaxOf(S) == CHOOSE x \in S : \A y \in S : y <= x

MinOf(S) == CHOOSE x \in S : \A y \in S : x <= y

\* value(S) < value(T)
MagLess(S, T) == S # T /\ MaxOf((S \ T) \cup (T \ S)) \in T

\* value(S) + 2^k : the carry runs up to the first clear position
MagAddBit(S, k) ==
    LET j == MinOf({i \in k..(MaxOf(S \cup {k}) + 1) : i \notin S})
    IN  (S \ (k..(j - 1))) \cup {j}

\* value(S) - 2^k, for value(S) >= 2^k : the borrow runs up to the first set position
MagSubBit(S, k) ==
    LET j == MinOf({i \in S : i >= k})
    IN  (S \ {j}) \cup (k..(j - 1))

RECURSIVE MagAdd(_, _)
MagAdd(S, T) ==
    IF T = {} THEN S
    ELSE LET k == MaxOf(T) IN MagAdd(MagAddBit(S, k), T \ {k})

\* value(S) - value(T), for value(S) >= value(T)
RECURSIVE MagSub(_, _)
MagSub(S, T) ==
    IF T = {} THEN S
    ELSE LET k == MaxOf(T) IN MagSub(MagSubBit(S, k), T \ {k})

\* value(S) * 2^n
MagShift(S, n) == {i + n : i \in S}

(***************************************************************************)
(* IEEE-754 binary32 and binary64.                                         *)
(***************************************************************************)
\* p: precision in bits; emin: position of the lowest subnormal bit;
\* emax: position of the highest bit of the largest finite value
F32 == [p |-> 24, emin |-> -149, emax |-> 127]

F64 == [p |-> 53, emin |-> -1074, emax |-> 1023]

Fin(neg, mag) == [cls |-> "fin", neg |-> neg, mag |-> mag]

Inf(neg) == [cls |-> "inf", neg |-> neg, mag |-> {}]

\* one NaN stands for every NaN bit pattern: no operation here reads a payload or a NaN's sign
NaN == [cls |-> "nan", neg |-> FALSE, mag |-> {}]

IsNaN(f) == f.cls = "nan"

FNeg(f) == [f EXCEPT !.neg = ~f.neg]

\* round an exact magnitude to the format, to nearest, ties to even
Round(neg, E, fmt) ==
    IF E = {} THEN Fin(neg, {})
    ELSE LET t      == MaxOf(E)
             lo     == IF t - fmt.p + 1 > fmt.emin THEN t - fmt.p + 1 ELSE fmt.emin
             kept   == {i \in E : i >= lo}
             half   == (lo - 1) \in E
             sticky == \E i \in E : i < lo - 1
             up     == half /\ (sticky \/ lo \in E)
             m      == IF up THEN MagAddBit(kept, lo) ELSE kept
         IN  IF m = {} THEN Fin(neg, {})
             ELSE IF MaxOf(m) > fmt.emax THEN Inf(neg) ELSE Fin(neg, m)

\* a + b in the format
FAdd(a, b, fmt) ==
    IF IsNaN(a) \/ IsNaN(b) THEN NaN
    ELSE IF a.cls = "inf" /\ b.cls = "inf" THEN (IF a.neg = b.neg THEN a ELSE NaN)
    ELSE IF a.cls = "inf" THEN a
    ELSE IF b.cls = "inf" THEN b
    ELSE IF a.neg = b.neg THEN Round(a.neg, MagAdd(a.mag, b.mag), fmt)
    ELSE IF a.mag = b.mag THEN Fin(FALSE, {})
    ELSE IF MagLess(b.mag, a.mag) THEN Round(a.neg, MagSub(a.mag, b.mag), fmt)
    ELSE Round(b.neg, MagSub(b.mag, a.mag), fmt)

\* FSub with its operands exchanged
MutFSubSwapped(a, b, fmt) == FAdd(b, FNeg(a), fmt)

\* a - b in the format
FSub(a, b, fmt) == FAdd(a, FNeg(b), fmt)

\* an infinity compares above every finite magnitude
InfBit == 2000

CmpMag(f) == IF f.cls = "inf" THEN {InfBit} ELSE f.mag

\* a < b ; false when either is NaN ; -0 = +0
FLt(a, b) ==
    /\ ~IsNaN(a) /\ ~IsNaN(b)
    /\ IF a.neg /\ b.neg THEN MagLess(CmpMag(b), CmpMag(a))
       ELSE IF a.neg THEN ~(CmpMag(a) = {} /\ CmpMag(b) = {})
       ELSE IF b.neg THEN FALSE
       ELSE MagLess(CmpMag(a), CmpMag(b))

FEq(a, b) ==
    /\ ~IsNaN(a) /\ ~IsNaN(b)
    /\ CmpMag(a) = CmpMag(b)
    /\ (a.neg = b.neg \/ CmpMag(a) = {})

FLe(a, b) == FLt(a, b) \/ FEq(a, b)

FGe(a, b) == FLe(b, a)

(***************************************************************************)
(* Integer types and the standard casts.                                   *)
(***************************************************************************)
IntegerType ==
    [i8   |-> [BITS |-> 8,   signed |-> TRUE],  u8   |-> [BITS |-> 8,   signed |-> FALSE],
     i16  |-> [BITS |-> 16,  signed |-> TRUE],  u16  |-> [BITS |-> 16,  signed |-> FALSE],
     i32  |-> [BITS |-> 32,  signed |-> TRUE],  u32  |-> [BITS |-> 32,  signed |-> FALSE],
     i64  |-> [BITS |-> 64,  signed |-> TRUE],  u64  |-> [BITS |-> 64,  signed |-> FALSE],
     i128 |-> [BITS |-> 128, signed |-> TRUE],  u128 |-> [BITS |-> 128, signed |-> FALSE]]

Integers10 == {"i8", "u8", "i16", "u16", "i32", "u32", "i64", "u64", "i128", "u128"}

\* two's complement negation of a pattern of width w
TwosNeg(S, w) ==
    IF S = {} THEN {}
    ELSE LET k == MinOf(S) IN {k} \cup {i \in (k + 1)..(w - 1) : i \notin S}

\* IntAs that forgets to drop the high bits
MutIntAsNoMask(S, Integer) == S

\* IntAs whose mask is one bit short
MutIntAsOffByOne(S, Integer) == S \cap (0..(IntegerType[Integer].BITS - 2))

\* IntAs that clamps a value too large for the type to all-ones instead of wrapping
MutIntAsSaturate(S, Integer) ==
    IF S \subseteq 0..(IntegerType[Integer].BITS - 1) THEN S
    ELSE 0..(IntegerType[Integer].BITS - 1)

\* integer `as` integer to a type that is not wider: keep the low BITS bits
IntAs(S, Integer) == S \cap (0..(IntegerType[Integer].BITS - 1))

\* the integer part of a float's magnitude (an infinity is above every integer)
TruncMag(f) == IF f.cls = "inf" THEN {InfBit} ELSE {i \in f.mag : i >= 0}

\* FloatAs that wraps modulo 2^BITS instead of saturating
MutFloatAsWrap(float, Integer) ==
    LET w == IntegerType[Integer].BITS
        t == {i \in float.mag : i >= 0}
    IN  IF float.cls # "fin" THEN {}
        ELSE IF float.neg THEN TwosNeg(t, w) \cap (0..(w - 1))
        ELSE t \cap (0..(w - 1))

\* FloatAs that converts NaN like a value above the range
MutFloatAsNaN(float, Integer) ==
    LET w == IntegerType[Integer].BITS
        t == TruncMag(float)
    IN  IF IntegerType[Integer].signed
        THEN IF IsNaN(float) THEN 0..(w - 2)
             ELSE IF ~float.neg
                  THEN (IF t # {} /\ MaxOf(t) > w - 2 THEN 0..(w - 2) ELSE t)
                  ELSE (IF MagLess({w - 1}, t) THEN {w - 1} ELSE TwosNeg(t, w))
        ELSE IF IsNaN(float) THEN 0..(w - 1)
             ELSE IF float.neg THEN {}
                  ELSE (IF t # {} /\ MaxOf(t) > w - 1 THEN 0..(w - 1) ELSE t)

\* float `as` integer: truncate toward zero, saturate, NaN to 0
FloatAs(float, Integer) ==
    LET w == IntegerType[Integer].BITS
        t == TruncMag(float)
    IN  IF IsNaN(float) THEN {}
        ELSE IF IntegerType[Integer].signed
             THEN IF ~float.neg
                  THEN (IF t # {} /\ MaxOf(t) > w - 2 THEN 0..(w - 2) ELSE t)
                  ELSE (IF MagLess({w - 1}, t) THEN {w - 1} ELSE TwosNeg(t, w))
             ELSE IF float.neg THEN {}
                  ELSE (IF t # {} /\ MaxOf(t) > w - 1 THEN 0..(w - 1) ELSE t)

\* Sar that shifts in zeros (a logical shift)
MutShr(S, n, w) == {i - n : i \in {j \in S : j >= n}}

\* signed `>>`: arithmetic shift right by n of a pattern of width w
Sar(S, n, w) ==
    {i - n : i \in {j \in S : j >= n}} \cup (IF (w - 1) \in S THEN (w - n)..(w - 1) ELSE {})

\* u64::overflowing_add(..).0 : addition modulo 2^w
WrappingAdd(S, T, w) == MagAdd(S, T) \cap (0..(w - 1))

(***************************************************************************)
(* CVTTSS2SI / CVTTSD2SI: truncate lane 0 toward zero to a signed integer  *)
(* of width w; the integer indefinite value 2^(w-1) when the truncation is *)
(* not representable, or the source is a NaN or an infinity.               *)
(***************************************************************************)
\* Cvtt that saturates instead of returning the integer indefinite value
MutCvttSaturate(lane0, w) ==
    IF lane0.cls = "nan" THEN {}
    ELSE IF lane0.cls = "inf" \/ ({i \in lane0.mag : i >= 0} \ (0..(w - 2))) # {}
         THEN (IF lane0.neg THEN {w - 1} ELSE 0..(w - 2))
    ELSE IF lane0.neg THEN TwosNeg({i \in lane0.mag : i >= 0}, w)
    ELSE {i \in lane0.mag : i >= 0}

\* Cvtt that rounds halves away from zero instead of truncating (CVTSS2SI-like)
MutCvtNearest(lane0, w) ==
    IF lane0.cls # "fin" THEN {w - 1}
    ELSE LET t == {i \in MagAddBit(lane0.mag, -1) : i >= 0}
         IN  IF t \subseteq 0..(w - 2)
             THEN (IF lane0.neg THEN TwosNeg(t, w) ELSE t)
             ELSE {w - 1}

\* Cvtt that rounds toward minus infinity instead of toward zero
MutCvttFloor(lane0, w) ==
    IF lane0.cls # "fin" THEN {w - 1}
    ELSE LET i == {k \in lane0.mag : k >= 0}
             t == IF lane0.neg /\ i # lane0.mag THEN MagAddBit(i, 0) ELSE i
         IN  IF t \subseteq 0..(w - 2)
             THEN (IF lane0.neg THEN TwosNeg(t, w) ELSE t)
             ELSE {w - 1}

\* Cvtt that converts NaN to 0
MutCvttNaNZero(lane0, w) ==
    IF lane0.cls = "nan" THEN {}
    ELSE IF lane0.cls = "inf" THEN {w - 1}
    ELSE LET t == {i \in lane0.mag : i >= 0}
         IN  IF t \subseteq 0..(w - 2)
             THEN (IF lane0.neg THEN TwosNeg(t, w) ELSE t)
             ELSE {w - 1}

\* truncation of lane 0, or the integer indefinite value
Cvtt(lane0, w) ==
    IF lane0.cls # "fin" THEN {w - 1}
    ELSE LET t == {i \in lane0.mag : i >= 0}
         IN  IF t \subseteq 0..(w - 2)
             THEN (IF lane0.neg THEN TwosNeg(t, w) ELSE t)
             ELSE {w - 1}

\* power_of_two_f32 with the exponent one too small
MutPowerOfTwoF32(exponent) == Round(FALSE, {exponent - 1}, F32)

\* lib.rs: (2u128).pow(exponent) as f32
power_of_two_f32(exponent) == Round(FALSE, {exponent}, F32)

\* power_of_two_f64 with the exponent one too small
MutPowerOfTwoF64(exponent) == Round(FALSE, {exponent - 1}, F64)

\* lib.rs: (2u128).pow(exponent) as f64
power_of_two_f64(exponent) == Round(FALSE, {exponent}, F64)

(***************************************************************************)
(* target_x86_64_sse.rs                                                    *)
(***************************************************************************)
Zero == Fin(FALSE, {})

\* fn f32_to_i64: _mm_cvttss_si64(_mm_loadu_ps([float, 0., 0., 0.]))
x86_64_sse_f32_to_i64(float) ==
    LET floats == <<float, Zero, Zero, Zero>>
    IN  Cvtt(floats[1], 64)

\* _f32_to_u64_branchful that forgets to add the threshold back
MutBranchfulNoAdd(float) ==
    LET THRESHOLD_FLOAT == power_of_two_f32(63)
        in_range        == FLe(float, THRESHOLD_FLOAT)
    IN  IF in_range
        THEN IntAs(x86_64_sse_f32_to_i64(float), "u64")
        ELSE IntAs(x86_64_sse_f32_to_i64(FSub(float, THRESHOLD_FLOAT, F32)), "u64")

\* the locals of _f32_to_u64_branchful, and whether its overflowing_add overflows
x86_64_sse_f32_to_u64_branchful_locals(float) ==
    LET THRESHOLD_FLOAT   == power_of_two_f32(63)
        THRESHOLD_INTEGER == {63}
        in_range_float    == FSub(float, THRESHOLD_FLOAT, F32)
        integer           == IntAs(x86_64_sse_f32_to_i64(in_range_float), "u64")
    IN  [in_range       |-> FLe(float, THRESHOLD_FLOAT),
         in_range_float |-> in_range_float,
         integer        |-> integer,
         overflow       |-> MagAdd(integer, THRESHOLD_INTEGER) \cap (0..63)
                              # MagAdd(integer, THRESHOLD_INTEGER)]

\* fn _f32_to_u64_branchful
x86_64_sse_f32_to_u64_branchful(float) ==
    LET THRESHOLD_FLOAT   == power_of_two_f32(63)
        THRESHOLD_INTEGER == {63}
        in_range          == FLe(float, THRESHOLD_FLOAT)
    IN  IF in_range
        THEN IntAs(x86_64_sse_f32_to_i64(float), "u64")
        ELSE LET in_range_float == FSub(float, THRESHOLD_FLOAT, F32)
                 integer        == IntAs(x86_64_sse_f32_to_i64(in_range_float), "u64")
             IN  WrappingAdd(integer, THRESHOLD_INTEGER, 64)

\* the locals of f32_to_u64_branchless; difference is `float - THRESHOLD`
x86_64_sse_f32_to_u64_branchless_locals(float) ==
    LET THRESHOLD  == power_of_two_f32(63)
        difference == FSub(float, THRESHOLD, F32)
        integer1   == x86_64_sse_f32_to_i64(float)
        integer2   == x86_64_sse_f32_to_i64(difference)
        too_large  == Sar(integer1, 63, 64)
    IN  [difference |-> difference, integer1 |-> integer1,
         integer2 |-> integer2, too_large |-> too_large]

\* fn f32_to_u64_branchless
x86_64_sse_f32_to_u64_branchless(float) ==
    LET l == x86_64_sse_f32_to_u64_branchless_locals(float)
    IN  IntAs(l.integer1 \cup (l.integer2 \cap l.too_large), "u64")

\* f32_to_u64 that reinterprets the signed primitive without the extension
MutF32ToU64Direct(float) == IntAs(x86_64_sse_f32_to_i64(float), "u64")

\* fn f32_to_u64
x86_64_sse_f32_to_u64(float) == x86_64_sse_f32_to_u64_branchless(float)

\* fn f64_to_i64: _mm_cvttsd_si64(_mm_loadu_pd([float, 0.]))
x86_64_sse_f64_to_i64(float) ==
    LET floats == <<float, Zero>>
    IN  Cvtt(floats[1], 64)

\* the locals of f64_to_u64; difference is `float - THRESHOLD`
x86_64_sse_f64_to_u64_locals(float) ==
    LET THRESHOLD  == power_of_two_f64(63)
        difference == FSub(float, THRESHOLD, F64)
        integer1   == x86_64_sse_f64_to_i64(float)
        integer2   == x86_64_sse_f64_to_i64(difference)
        too_large  == Sar(integer1, 63, 64)
    IN  [difference |-> difference, integer1 |-> integer1,
         integer2 |-> integer2, too_large |-> too_large]

\* fn f64_to_u64
x86_64_sse_f64_to_u64(float) ==
    LET l == x86_64_sse_f64_to_u64_locals(float)
    IN  IntAs(l.integer1 \cup (l.integer2 \cap l.too_large), "u64")

\* what a back-end function hands back: the value and the conversion it went through
Ret(value, via) == [value |-> value, via |-> via]

\* pub mod implementation
target_x86_64_sse_implementation(name, float) ==
    CASE name = "f32_to_i8"   -> Ret(IntAs(x86_64_sse_f32_to_i64(float), "i8"),  "f32_to_i64")
      [] name = "f32_to_u8"   -> Ret(IntAs(x86_64_sse_f32_to_i64(float), "u8"),  "f32_to_i64")
      [] name = "f32_to_i16"  -> Ret(IntAs(x86_64_sse_f32_to_i64(float), "i16"), "f32_to_i64")
      [] name = "f32_to_u16"  -> Ret(IntAs(x86_64_sse_f32_to_i64(float), "u16"), "f32_to_i64")
      [] name = "f32_to_i32"  -> Ret(IntAs(x86_64_sse_f32_to_i64(float), "i32"), "f32_to_i64")
      [] name = "f32_to_u32"  -> Ret(IntAs(x86_64_sse_f32_to_i64(float), "u32"), "f32_to_i64")
      [] name = "f32_to_i64"  -> Ret(IntAs(x86_64_sse_f32_to_i64(float), "i64"), "f32_to_i64")
      [] name = "f32_to_u64"  -> Ret(IntAs(x86_64_sse_f32_to_u64(float), "u64"), "f32_to_u64")
      [] name = "f32_to_i128" -> Ret(FloatAs(float, "i128"), "as")
      [] name = "f32_to_u128" -> Ret(FloatAs(float, "u128"), "as")
      \* f64_to_i8 calls implementation::f64_to_i64, which calls super::f64_to_i64
      [] name = "f64_to_i8"   -> Ret(IntAs(IntAs(x86_64_sse_f64_to_i64(float), "i64"), "i8"), "f64_to_i64")
      [] name = "f64_to_u8"   -> Ret(IntAs(x86_64_sse_f64_to_i64(float), "u8"),  "f64_to_i64")
      [] name = "f64_to_i16"  -> Ret(IntAs(x86_64_sse_f64_to_i64(float), "i16"), "f64_to_i64")
      [] name = "f64_to_u16"  -> Ret(IntAs(x86_64_sse_f64_to_i64(float), "u16"), "f64_to_i64")
      [] name = "f64_to_i32"  -> Ret(IntAs(x86_64_sse_f64_to_i64(float), "i32"), "f64_to_i64")
      [] name = "f64_to_u32"  -> Ret(IntAs(x86_64_sse_f64_to_i64(float), "u32"), "f64_to_i64")
      [] name = "f64_to_i64"  -> Ret(IntAs(x86_64_sse_f64_to_i64(float), "i64"), "f64_to_i64")
      [] name = "f64_to_u64"  -> Ret(IntAs(x86_64_sse_f64_to_u64(float), "u64"), "f64_to_u64")
      [] name = "f64_to_i128" -> Ret(FloatAs(float, "i128"), "as")
      [] name = "f64_to_u128" -> Ret(FloatAs(float, "u128"), "as")

(***************************************************************************)
(* target_x86_sse.rs                                                       *)
(***************************************************************************)
\* fn f32_to_i32: _mm_cvttss_si32(_mm_loadu_ps([float, 0., 0., 0.]))
x86_sse_f32_to_i32(float) ==
    LET floats == <<float, Zero, Zero, Zero>>
    IN  Cvtt(floats[1], 32)

\* the locals of f32_to_u32; difference is `float - THRESHOLD`
x86_sse_f32_to_u32_locals(float) ==
    LET THRESHOLD  == power_of_two_f32(31)
        difference == FSub(float, THRESHOLD, F32)
        integer1   == x86_sse_f32_to_i32(float)
        integer2   == x86_sse_f32_to_i32(difference)
        too_large  == Sar(integer1, 31, 32)
    IN  [difference |-> difference, integer1 |-> integer1,
         integer2 |-> integer2, too_large |-> too_large]

\* fn f32_to_u32
x86_sse_f32_to_u32(float) ==
    LET l == x86_sse_f32_to_u32_locals(float)
    IN  IntAs(l.integer1 \cup (l.integer2 \cap l.too_large), "u32")

\* fn f64_to_i32: _mm_cvttsd_si32(_mm_loadu_pd([float, 0.]))
x86_sse_f64_to_i32(float) ==
    LET floats == <<float, Zero>>
    IN  Cvtt(floats[1], 32)

\* the locals of f64_to_u32; difference is `float - THRESHOLD`
x86_sse_f64_to_u32_locals(float) ==
    LET THRESHOLD  == power_of_two_f64(31)
        difference == FSub(float, THRESHOLD, F64)
        integer1   == x86_sse_f64_to_i32(float)
        integer2   == x86_sse_f64_to_i32(difference)
        too_large  == Sar(integer1, 31, 32)
    IN  [difference |-> difference, integer1 |-> integer1,
         integer2 |-> integer2, too_large |-> too_large]

\* fn f64_to_u32
x86_sse_f64_to_u32(float) ==
    LET l == x86_sse_f64_to_u32_locals(float)
    IN  IntAs(l.integer1 \cup (l.integer2 \cap l.too_large), "u32")

\* the x86 implementation module with f32_to_u32 written as the standard cast
MutX86ImplementationAs(name, float) ==
    CASE name = "f32_to_i8"   -> Ret(IntAs(x86_sse_f32_to_i32(float), "i8"),  "f32_to_i32")
      [] name = "f32_to_u8"   -> Ret(IntAs(x86_sse_f32_to_i32(float), "u8"),  "f32_to_i32")
      [] name = "f32_to_i16"  -> Ret(IntAs(x86_sse_f32_to_i32(float), "i16"), "f32_to_i32")
      [] name = "f32_to_u16"  -> Ret(IntAs(x86_sse_f32_to_i32(float), "u16"), "f32_to_i32")
      [] name = "f32_to_i32"  -> Ret(IntAs(x86_sse_f32_to_i32(float), "i32"), "f32_to_i32")
      [] name = "f32_to_u32"  -> Ret(FloatAs(float, "u32"), "as")
      [] name = "f64_to_i8"   -> Ret(IntAs(x86_sse_f64_to_i32(float), "i8"),  "f64_to_i32")
      [] name = "f64_to_u8"   -> Ret(IntAs(x86_sse_f64_to_i32(float), "u8"),  "f64_to_i32")
      [] name = "f64_to_i16"  -> Ret(IntAs(x86_sse_f64_to_i32(float), "i16"), "f64_to_i32")
      [] name = "f64_to_u16"  -> Ret(IntAs(x86_sse_f64_to_i32(float), "u16"), "f64_to_i32")
      [] name = "f64_to_i32"  -> Ret(IntAs(x86_sse_f64_to_i32(float), "i32"), "f64_to_i32")
      [] name = "f64_to_u32"  -> Ret(IntAs(x86_sse_f64_to_u32(float), "u32"), "f64_to_u32")
      [] name = "f32_to_i64"  -> Ret(FloatAs(float, "i64"),  "as")
      [] name = "f32_to_u64"  -> Ret(FloatAs(float, "u64"),  "as")
      [] name = "f32_to_i128" -> Ret(FloatAs(float, "i128"), "as")
      [] name = "f32_to_u128" -> Ret(FloatAs(float, "u128"), "as")
      [] name = "f64_to_i64"  -> Ret(FloatAs(float, "i64"),  "as")
      [] name = "f64_to_u64"  -> Ret(FloatAs(float, "u64"),  "as")
      [] name = "f64_to_i128" -> Ret(FloatAs(float, "i128"), "as")
      [] name = "f64_to_u128" -> Ret(FloatAs(float, "u128"), "as")

\* pub mod implementation
target_x86_sse_implementation(name, float) ==
    CASE name = "f32_to_i8"   -> Ret(IntAs(x86_sse_f32_to_i32(float), "i8"),  "f32_to_i32")
      [] name = "f32_to_u8"   -> Ret(IntAs(x86_sse_f32_to_i32(float), "u8"),  "f32_to_i32")
      [] name = "f32_to_i16"  -> Ret(IntAs(x86_sse_f32_to_i32(float), "i16"), "f32_to_i32")
      [] name = "f32_to_u16"  -> Ret(IntAs(x86_sse_f32_to_i32(float), "u16"), "f32_to_i32")
      [] name = "f32_to_i32"  -> Ret(IntAs(x86_sse_f32_to_i32(float), "i32"), "f32_to_i32")
      [] name = "f32_to_u32"  -> Ret(IntAs(x86_sse_f32_to_u32(float), "u32"), "f32_to_u32")
      [] name = "f32_to_i64"  -> Ret(FloatAs(float, "i64"),  "as")
      [] name = "f32_to_u64"  -> Ret(FloatAs(float, "u64"),  "as")
      [] name = "f32_to_i128" -> Ret(FloatAs(float, "i128"), "as")
      [] name = "f32_to_u128" -> Ret(FloatAs(float, "u128"), "as")
      [] name = "f64_to_i8"   -> Ret(IntAs(x86_sse_f64_to_i32(float), "i8"),  "f64_to_i32")
      [] name = "f64_to_u8"   -> Ret(IntAs(x86_sse_f64_to_i32(float), "u8"),  "f64_to_i32")
      [] name = "f64_to_i16"  -> Ret(IntAs(x86_sse_f64_to_i32(float), "i16"), "f64_to_i32")
      [] name = "f64_to_u16"  -> Ret(IntAs(x86_sse_f64_to_i32(float), "u16"), "f64_to_i32")
      [] name = "f64_to_i32"  -> Ret(IntAs(x86_sse_f64_to_i32(float), "i32"), "f64_to_i32")
      [] name = "f64_to_u32"  -> Ret(IntAs(x86_sse_f64_to_u32(float), "u32"), "f64_to_u32")
      [] name = "f64_to_i64"  -> Ret(FloatAs(float, "i64"),  "as")
      [] name = "f64_to_u64"  -> Ret(FloatAs(float, "u64"),  "as")
      [] name = "f64_to_i128" -> Ret(FloatAs(float, "i128"), "as")
      [] name = "f64_to_u128" -> Ret(FloatAs(float, "u128"), "as")

(***************************************************************************)
(* target_default.rs                                                       *)
(***************************************************************************)
\* create_function! {name, Input, Output}: float as _
target_default_implementation(name, float) ==
    CASE name = "f32_to_i8"   -> Ret(FloatAs(float, "i8"),   "as")
      [] name = "f32_to_u8"   -> Ret(FloatAs(float, "u8"),   "as")
      [] name = "f32_to_i16"  -> Ret(FloatAs(float, "i16"),  "as")
      [] name = "f32_to_u16"  -> Ret(FloatAs(float, "u16"),  "as")
      [] name = "f32_to_i32"  -> Ret(FloatAs(float, "i32"),  "as")
      [] name = "f32_to_u32"  -> Ret(FloatAs(float, "u32"),  "as")
      [] name = "f32_to_i64"  -> Ret(FloatAs(float, "i64"),  "as")
      [] name = "f32_to_u64"  -> Ret(FloatAs(float, "u64"),  "as")
      [] name = "f32_to_i128" -> Ret(FloatAs(float, "i128"), "as")
      [] name = "f32_to_u128" -> Ret(FloatAs(float, "u128"), "as")
      [] name = "f64_to_i8"   -> Ret(FloatAs(float, "i8"),   "as")
      [] name = "f64_to_u8"   -> Ret(FloatAs(float, "u8"),   "as")
      [] name = "f64_to_i16"  -> Ret(FloatAs(float, "i16"),  "as")
      [] name = "f64_to_u16"  -> Ret(FloatAs(float, "u16"),  "as")
      [] name = "f64_to_i32"  -> Ret(FloatAs(float, "i32"),  "as")
      [] name = "f64_to_u32"  -> Ret(FloatAs(float, "u32"),  "as")
      [] name = "f64_to_i64"  -> Ret(FloatAs(float, "i64"),  "as")
      [] name = "f64_to_u64"  -> Ret(FloatAs(float, "u64"),  "as")
      [] name = "f64_to_i128" -> Ret(FloatAs(float, "i128"), "as")
      [] name = "f64_to_u128" -> Ret(FloatAs(float, "u128"), "as")

(***************************************************************************)
(* lib.rs                                                                  *)
(***************************************************************************)
\* create_function! {name, Float, Integer}: the 20 public functions
Signature ==
    [f32_to_i8   |-> [Float |-> "f32", Integer |-> "i8"],
     f32_to_u8   |-> [Float |-> "f32", Integer |-> "u8"],
     f32_to_i16  |-> [Float |-> "f32", Integer |-> "i16"],
     f32_to_u16  |-> [Float |-> "f32", Integer |-> "u16"],
     f32_to_i32  |-> [Float |-> "f32", Integer |-> "i32"],
     f32_to_u32  |-> [Float |-> "f32", Integer |-> "u32"],
     f32_to_i64  |-> [Float |-> "f32", Integer |-> "i64"],
     f32_to_u64  |-> [Float |-> "f32", Integer |-> "u64"],
     f32_to_i128 |-> [Float |-> "f32", Integer |-> "i128"],
     f32_to_u128 |-> [Float |-> "f32", Integer |-> "u128"],
     f64_to_i8   |-> [Float |-> "f64", Integer |-> "i8"],
     f64_to_u8   |-> [Float |-> "f64", Integer |-> "u8"],
     f64_to_i16  |-> [Float |-> "f64", Integer |-> "i16"],
     f64_to_u16  |-> [Float |-> "f64", Integer |-> "u16"],
     f64_to_i32  |-> [Float |-> "f64", Integer |-> "i32"],
     f64_to_u32  |-> [Float |-> "f64", Integer |-> "u32"],
     f64_to_i64  |-> [Float |-> "f64", Integer |-> "i64"],
     f64_to_u64  |-> [Float |-> "f64", Integer |-> "u64"],
     f64_to_i128 |-> [Float |-> "f64", Integer |-> "i128"],
     f64_to_u128 |-> [Float |-> "f64", Integer |-> "u128"]]

Names == DOMAIN Signature

Format(Float) == IF Float = "f32" THEN F32 ELSE F64

\* cfg_if! written as independent #[cfg] attributes: earlier branches do not exclude later ones
MutCfgIndependent(force_default, arch, sse) ==
    LET cond   == <<force_default,
                    arch = "x86_64" /\ sse,
                    arch = "x86" /\ sse,
                    TRUE>>
        module == <<"target_default", "target_x86_64_sse", "target_x86_sse", "target_default">>
    IN  {module[i] : i \in {k \in 1..4 : cond[k]}}

\* cfg_if!: the module of the first branch whose condition holds is compiled
\* and aliased active_target; the last branch is the unconditional else
cfg_if(force_default, arch, sse) ==
    LET cond   == <<force_default,
                    arch = "x86_64" /\ sse,
                    arch = "x86" /\ sse,
                    TRUE>>
        module == <<"target_default", "target_x86_64_sse", "target_x86_sse", "target_default">>
    IN  {module[i] : i \in {k \in 1..4 : cond[k] /\ \A j \in 1..(k - 1) : ~cond[j]}}

\* active_target::implementation::$name(float)
implementation(target, name, float) ==
    CASE target = "target_default"    -> target_default_implementation(name, float)
      [] target = "target_x86_64_sse" -> target_x86_64_sse_implementation(name, float)
      [] target = "target_x86_sse"    -> target_x86_sse_implementation(name, float)

(***************************************************************************)
(* Inputs: tests/test.rs interesting_floats, and the special values.       *)
(***************************************************************************)
\* the one-bits of a small natural number
Bits(n) == {i \in 0..30 : (n \div (2 ^ i)) % 2 = 1}

\* offset as $Float
FromInt(n) == IF n < 0 THEN Fin(TRUE, Bits(-n)) ELSE Fin(FALSE, Bits(n))

\* the position of the last bit of a positive finite float's significand
UlpOf(float, fmt) ==
    LET t == MaxOf(float.mag)
    IN  IF t - fmt.p + 1 > fmt.emin THEN t - fmt.p + 1 ELSE fmt.emin

\* float.next_after(INFINITY), n times, for a positive finite float
RECURSIVE NextUp(_, _, _)
NextUp(float, n, fmt) ==
    IF n = 0 THEN float
    ELSE NextUp(Round(FALSE, MagAddBit(float.mag, UlpOf(float, fmt)), fmt), n - 1, fmt)

\* float.next_after(NEG_INFINITY), n times, for a positive finite float
RECURSIVE NextDown(_, _, _)
NextDown(float, n, fmt) ==
    IF n = 0 THEN float
    ELSE LET t    == MaxOf(float.mag)
             step == IF float.mag = {t} /\ t - fmt.p >= fmt.emin
                     THEN t - fmt.p ELSE UlpOf(float, fmt)
         IN  NextDown(Fin(FALSE, MagSubBit(float.mag, step)), n - 1, fmt)

\* float * 1.5
TimesOneAndHalf(float, fmt) ==
    Round(float.neg, MagAdd(float.mag, MagShift(float.mag, -1)), fmt)

signs(S) == S \cup {FNeg(f) : f \in S}

interesting_floats(fmt) ==
    signs(UNION {
        LET float == Round(FALSE, {exponent}, fmt)
        IN  {FAdd(float, FromInt(offset), fmt) : offset \in (-MaxOffset)..MaxOffset}
            \cup {NextUp(float, n, fmt) : n \in 1..MaxNeighbors}
            \cup {NextDown(float, n, fmt) : n \in 1..MaxNeighbors}
            \cup {TimesOneAndHalf(float, fmt)}
        : exponent \in 0..(MaxExponent - 1)})

\* NaN, infinities, zeros, the smallest subnormal, the largest finite value,
\* one half, the ends of the 128-bit ranges, and the values 200, 300 and 5
special_floats(fmt) ==
    {NaN} \cup
    signs({Inf(FALSE), Zero, Fin(FALSE, {fmt.emin}), Fin(FALSE, {-1}),
           Fin(FALSE, (fmt.emax - fmt.p + 1)..fmt.emax),
           Round(FALSE, {126}, fmt), Round(FALSE, {127}, fmt), Round(FALSE, {128}, fmt),
           Round(FALSE, {129}, fmt),
           FromInt(200), FromInt(300), FromInt(5)})

\* 2.0_f64.powi(63) + 100.0
Pow63Plus100 == FAdd(Round(FALSE, {63}, F64), FromInt(100), F64)

Inputs(Float) ==
    interesting_floats(Format(Float)) \cup special_floats(Format(Float))
    \cup (IF Float = "f64" THEN {Pow63Plus100} ELSE {})

(***************************************************************************)
(* The program: a build configuration fixes the active target; a caller    *)
(* invokes one conversion at a time.                                       *)
(***************************************************************************)
VARIABLES
    feature_force_default,  \* cfg(feature = "force-default")
    target_arch,            \* cfg(target_arch)
    target_feature_sse,     \* cfg(target_feature = "sse")
    active_target,          \* the modules cfg_if! compiled in
    pc,                     \* "idle" or "returned"
    name,                   \* the function called last
    float,                  \* its argument
    result,                 \* its return value
    via                     \* the conversion its body went through

vars == <<feature_force_default, target_arch, target_feature_sse, active_target,
          pc, name, float, result, via>>

build == <<feature_force_default, target_arch, target_feature_sse, active_target>>

Architectures == {"x86_64", "x86", "aarch64"}

Init ==
    /\ feature_force_default \in BOOLEAN
    /\ target_arch \in Architectures
    /\ target_feature_sse \in BOOLEAN
    /\ active_target = cfg_if(feature_force_default, target_arch, target_feature_sse)
    /\ pc = "idle"
    /\ name = "none"
    /\ float = Zero
    /\ result = {}
    /\ via = "none"

\* pub fn $name(float: $Float) -> $Integer
Call ==
    /\ pc = "idle"
    /\ \E n \in Names :
         \E f \in Inputs(Signature[n].Float) :
           \E target \in active_target :
             LET r == implementation(target, n, f)
             IN  /\ name' = n
                 /\ float' = f
                 /\ result' = r.value
                 /\ via' = r.via
    /\ pc' = "returned"
    /\ UNCHANGED build

\* fn _f32_to_u64_branchful, kept in target_x86_64_sse for documentation
Branchful ==
    /\ pc = "idle"
    /\ "target_x86_64_sse" \in active_target
    /\ \E f \in Inputs("f32") :
         /\ float' = f
         /\ result' = x86_64_sse_f32_to_u64_branchful(f)
    /\ name' = "_f32_to_u64_branchful"
    /\ via' = "f32_to_i64"
    /\ pc' = "returned"
    /\ UNCHANGED build

\* the caller takes the value and may call again
Return ==
    /\ pc = "returned"
    /\ pc' = "idle"
    /\ name' = "none"
    /\ float' = Zero
    /\ result' = {}
    /\ via' = "none"
    /\ UNCHANGED build

Next == Call \/ Branchful \/ Return

Spec == Init /\ [][Next]_vars

(***************************************************************************)
(* tests/test.rs: the comparison-based range predicate.                    *)
(***************************************************************************)
\* base.powi(n) with base = 2.
powi(n, fmt) == Round(FALSE, {n}, fmt)

\* InRange::<$Integer>::in_range(self)
in_range(self, Float, Integer) ==
    LET bits == IntegerType[Integer].BITS
        fmt  == Format(Float)
    IN  IF IntegerType[Integer].signed
        THEN FGe(self, FNeg(powi(bits - 1, fmt))) /\ FLt(self, powi(bits - 1, fmt))
        ELSE FGe(self, Zero) /\ FLt(self, powi(bits, fmt))

(***************************************************************************)
(* Vocabulary of the properties.                                           *)
(***************************************************************************)
Returned == pc = "returned" /\ name \in Names

Target == CHOOSE t \in active_target : TRUE

Integer == Signature[name].Integer

FloatTy == Signature[name].Float

InRange == in_range(float, FloatTy, Integer)

\* the truncation toward zero of the float lies in [MIN, MAX] of the type
TruncInRange(f, Ty) ==
    LET w == IntegerType[Ty].BITS
        t == {i \in f.mag : i >= 0}
    IN  /\ f.cls = "fin"
        /\ IF IntegerType[Ty].signed
           THEN IF f.neg THEN ~MagLess({w - 1}, t) ELSE t \subseteq 0..(w - 2)
           ELSE IF f.neg THEN t = {} ELSE t \subseteq 0..(w - 1)

\* the saturating cast as the language reference words it: NaN is 0, values
\* at or beyond an end of the type clamp to that end, the others truncate
SaturatingCast(f, Float, Ty) ==
    LET w   == IntegerType[Ty].BITS
        fmt == Format(Float)
        t   == {i \in f.mag : i >= 0}
    IN  IF f.cls = "nan" THEN {}
        ELSE IF IntegerType[Ty].signed
        THEN IF FGe(f, powi(w - 1, fmt)) THEN 0..(w - 2)
             ELSE IF FLe(f, FNeg(powi(w - 1, fmt))) THEN {w - 1}
             ELSE IF f.neg THEN TwosNeg(t, w) ELSE t
        ELSE IF FGe(f, powi(w, fmt)) THEN 0..(w - 1)
             ELSE IF FLe(f, Zero) THEN {}
             ELSE t

\* the branchless unsigned extensions and their widths
Branchless == [f32_to_u64 |-> 64, f64_to_u64 |-> 64, f32_to_u32 |-> 32, f64_to_u32 |-> 32]

\* the types narrower than the wide primitive of each specialized back-end
Narrow ==
    [target_x86_64_sse |-> {"i8", "u8", "i16", "u16", "i32", "u32"},
     target_x86_sse    |-> {"i8", "u8", "i16", "u16"}]

\* the types each specialized back-end leaves to the standard cast
Unspecialized ==
    [target_x86_64_sse |-> {"i128", "u128"},
     target_x86_sse    |-> {"i64", "u64", "i128", "u128"}]

Specialized == {"target_x86_64_sse", "target_x86_sse"}

\* the wide signed primitive of the active specialized back-end, applied to the argument
WidePrimitive ==
    IF Target = "target_x86_64_sse"
    THEN (IF FloatTy = "f32" THEN x86_64_sse_f32_to_i64(float) ELSE x86_64_sse_f64_to_i64(float))
    ELSE (IF FloatTy = "f32" THEN x86_sse_f32_to_i32(float) ELSE x86_sse_f64_to_i32(float))

WideType == IF Target = "target_x86_64_sse" THEN "i64" ELSE "i32"

(***************************************************************************)
(* Properties.                                                             *)
(***************************************************************************)
\* C1: on every back-end, a call whose argument satisfies the comparison-based
\* range predicate of the destination type returns the standard cast `f as T`.
C1_RangeAgreement ==
    (Returned /\ InRange) => result = FloatAs(float, Integer)

\* a specialized back-end converted an in-range value of the upper half of u64
C1_Witness ==
    /\ Returned /\ InRange
    /\ active_target = {"target_x86_64_sse"}
    /\ name = "f32_to_u64"
    /\ 63 \in result
    /\ result # {63}
    /\ result = FloatAs(float, "u64")

\* C2: every call, whatever the class of its argument (NaN, zeros, infinities,
\* subnormals, out of range), returns a bit pattern of the destination type.
C2_Totality ==
    Returned => /\ result \subseteq 0..(IntegerType[Integer].BITS - 1)
                /\ via \in {"as", "f32_to_i64", "f64_to_i64", "f32_to_u64", "f64_to_u64",
                            "f32_to_i32", "f64_to_i32", "f32_to_u32", "f64_to_u32"}

\* f32_to_i64(NaN) returned on the 64-bit back-end
C2_Witness ==
    /\ Returned
    /\ active_target = {"target_x86_64_sse"}
    /\ name = "f32_to_i64"
    /\ float = NaN
    /\ result \subseteq 0..63

\* C3: a branchless unsigned extension of width w returns, for 0 <= f < 2^w,
\* the truncation toward zero of f.
C3_WideUnsigned ==
    (/\ Returned
     /\ via \in DOMAIN Branchless
     /\ FGe(float, Zero)
     /\ FLt(float, powi(Branchless[via], Format(FloatTy))))
    => result = {i \in float.mag : i >= 0}

\* f64_to_u32 of a value in [2^31, 2^32) with a fractional part
C3_Witness ==
    /\ Returned
    /\ via = "f64_to_u32"
    /\ FLt(float, powi(32, F64))
    /\ 31 \in result
    /\ \E i \in float.mag : i < 0
    /\ result = {i \in float.mag : i >= 0}

\* C4 as stated: f64_to_u64(2.0_f64.powi(63) + 100.0) returns 2^63 + 100.
C4_Original ==
    (Returned /\ name = "f64_to_u64" /\ float = Pow63Plus100)
    => result = {63} \cup Bits(100)

\* C4: f64_to_u64(2.0_f64.powi(63) + 100.0) returns 2^63 on every back-end:
\* the f64 sum rounds to 2^63, where adjacent f64 values are 2048 apart.
C4_Pow63Plus100 ==
    (Returned /\ name = "f64_to_u64" /\ float = Pow63Plus100) => result = {63}

\* the 64-bit back-end converted the sum through the branchless extension
C4_Witness ==
    /\ Returned
    /\ active_target = {"target_x86_64_sse"}
    /\ name = "f64_to_u64"
    /\ via = "f64_to_u64"
    /\ float = Pow63Plus100
    /\ result = {63}

\* C5: for 0 <= f < 2^64 the branching reference returns what the branchless
\* extension returns.
C5_BranchfulEquivalence ==
    (/\ pc = "returned"
     /\ name = "_f32_to_u64_branchful"
     /\ in_range(float, "f32", "u64"))
    => result = x86_64_sse_f32_to_u64_branchless(float)

\* the reference took its first branch at the boundary f = 2^63
C5_Witness ==
    /\ pc = "returned"
    /\ name = "_f32_to_u64_branchful"
    /\ float = power_of_two_f32(63)
    /\ FLe(float, power_of_two_f32(63))
    /\ result = {63}

\* C6: on a specialized back-end a conversion to a type narrower than the wide
\* primitive returns the low bits of the primitive's result, and that is the
\* standard cast whenever the primitive's result is the truncation of an
\* argument in range for the narrow type.
C6_Narrowing ==
    (/\ Returned
     /\ Target \in Specialized
     /\ Integer \in Narrow[Target])
    => /\ result = WidePrimitive \cap (0..(IntegerType[Integer].BITS - 1))
       /\ (/\ TruncInRange(float, Integer)
           /\ WidePrimitive = SaturatingCast(float, FloatTy, WideType))
          => result = SaturatingCast(float, FloatTy, Integer)

\* a negative in-range value narrowed from the 32-bit primitive to i16
C6_Witness ==
    /\ Returned
    /\ active_target = {"target_x86_sse"}
    /\ name = "f64_to_i16"
    /\ float.neg
    /\ TruncInRange(float, "i16")
    /\ 15 \in result
    /\ result = x86_sse_f64_to_i32(float) \cap (0..15)
    /\ result # x86_sse_f64_to_i32(float)

\* C7: exactly one back-end is active: the fallback when force-default is set,
\* else the 64-bit one on x86_64 with SSE, else the 32-bit one on x86 with
\* SSE, else the fallback.
C7_Selection ==
    /\ Cardinality(active_target) = 1
    /\ feature_force_default => active_target = {"target_default"}
    /\ (~feature_force_default /\ target_arch = "x86_64" /\ target_feature_sse)
         => active_target = {"target_x86_64_sse"}
    /\ (~feature_force_default /\ target_arch = "x86" /\ target_feature_sse)
         => active_target = {"target_x86_sse"}
    /\ (~feature_force_default /\ ~(target_arch \in {"x86_64", "x86"} /\ target_feature_sse))
         => active_target = {"target_default"}

\* force-default wins on x86_64 with SSE, and a call went to the fallback
C7_Witness ==
    /\ feature_force_default
    /\ target_arch = "x86_64"
    /\ target_feature_sse
    /\ active_target = {"target_default"}
    /\ Returned
    /\ via = "as"

\* C8: the fallback back-end returns the saturating cast for every argument.
C8_Fallback ==
    (Returned /\ Target = "target_default")
    => result = SaturatingCast(float, FloatTy, Integer)

\* the fallback clamped an out-of-range positive value to the maximum of i16
C8_Witness ==
    /\ Returned
    /\ Target = "target_default"
    /\ name = "f32_to_i16"
    /\ float.cls = "fin"
    /\ ~InRange
    /\ result = 0..14

\* C9: a specialized back-end returns the saturating cast for the types it
\* does not specialize, and goes through the hardware truncation for the rest.
C9_Unspecialized ==
    (Returned /\ Target \in Specialized)
    => IF Integer \in Unspecialized[Target]
       THEN via = "as" /\ result = SaturatingCast(float, FloatTy, Integer)
       ELSE via # "as"

\* the 32-bit back-end converted +infinity to u64::MAX through the standard cast
C9_Witness ==
    /\ Returned
    /\ active_target = {"target_x86_sse"}
    /\ name = "f32_to_u64"
    /\ float = Inf(FALSE)
    /\ result = 0..63

\* C10: for an in-range argument, the value returned does not change when the
\* force-default flag of the build is flipped.
C10_ConfigurationIndependence ==
    (Returned /\ InRange)
    => \A other \in cfg_if(~feature_force_default, target_arch, target_feature_sse) :
         result = implementation(other, name, float).value

\* the flag is unset on x86 with SSE, and the upper half of u32 was converted
C10_Witness ==
    /\ Returned /\ InRange
    /\ ~feature_force_default
    /\ active_target = {"target_x86_sse"}
    /\ name = "f32_to_u32"
    /\ 31 \in result
    /\ result = target_default_implementation(name, float).value

\* the locals of the branchless extension a call went through
Locals ==
    CASE via = "f32_to_u64" -> x86_64_sse_f32_to_u64_branchless_locals(float)
      [] via = "f64_to_u64" -> x86_64_sse_f64_to_u64_locals(float)
      [] via = "f32_to_u32" -> x86_sse_f32_to_u32_locals(float)
      [] via = "f64_to_u32" -> x86_sse_f64_to_u32_locals(float)

\* the helper a call went through, applied to the argument
Helper ==
    CASE via = "f32_to_i64" -> x86_64_sse_f32_to_i64(float)
      [] via = "f64_to_i64" -> x86_64_sse_f64_to_i64(float)
      [] via = "f32_to_u64" -> x86_64_sse_f32_to_u64(float)
      [] via = "f64_to_u64" -> x86_64_sse_f64_to_u64(float)
      [] via = "f32_to_i32" -> x86_sse_f32_to_i32(float)
      [] via = "f64_to_i32" -> x86_sse_f64_to_i32(float)
      [] via = "f32_to_u32" -> x86_sse_f32_to_u32(float)
      [] via = "f64_to_u32" -> x86_sse_f64_to_u32(float)

Helpers == {"f32_to_i64", "f64_to_i64", "f32_to_u64", "f64_to_u64",
            "f32_to_i32", "f64_to_i32", "f32_to_u32", "f64_to_u32"}

\* the width of the wide primitive of the active specialized back-end
WideBits == IntegerType[WideType].BITS

\* the integer part of the argument's magnitude
IntPart == {i \in float.mag : i >= 0}

\* the two's complement pattern of width w of the argument's truncation
TruncPattern(w) == IF float.neg THEN TwosNeg(IntPart, w) ELSE IntPart

\* C11: on every back-end, a call whose argument's truncation toward zero lies
\* in [T::MIN, T::MAX] returns `f as T`, also for the fractional arguments
\* just outside the comparison-based predicate.
C11_TruncationRangeAgreement ==
    (Returned /\ TruncInRange(float, Integer)) => result = FloatAs(float, Integer)

\* a specialized back-end converted a value in (i32::MIN - 1, i32::MIN)
C11_Witness ==
    /\ Returned
    /\ active_target = {"target_x86_sse"}
    /\ name = "f64_to_i32"
    /\ TruncInRange(float, "i32")
    /\ ~InRange
    /\ float.neg
    /\ result = {31}

\* C12 as stated, for the specialized back-ends: every function goes through a
\* primitive or an extension and truncates its result.
C12_Original ==
    (Returned /\ Target \in Specialized)
    => /\ via \in Helpers
       /\ result = Helper \cap (0..(IntegerType[Integer].BITS - 1))

\* C12: on a specialized back-end every function for a type the back-end
\* specializes returns a primitive's or an extension's result truncated to the
\* destination width; the functions for the other types are the standard cast.
C12_Forwarding ==
    (Returned /\ Target \in Specialized)
    => IF Integer \in Unspecialized[Target]
       THEN via = "as" /\ result = FloatAs(float, Integer)
       ELSE /\ via \in Helpers
            /\ result = Helper \cap (0..(IntegerType[Integer].BITS - 1))

\* the 32-bit back-end forwarded f32_to_u32 to its extension, upper half
C12_Witness ==
    /\ Returned
    /\ active_target = {"target_x86_sse"}
    /\ name = "f32_to_u32"
    /\ via = "f32_to_u32"
    /\ float.cls = "fin"
    /\ FLt(float, powi(32, F32))
    /\ 31 \in result
    /\ result # {31}
    /\ result = x86_sse_f32_to_u32(float)

\* the all-one-bits pattern of width w
AllOnes(w) == 0..(w - 1)

C14_Primitive ==
    (Returned /\ Target \in Specialized /\ Integer = WideType)
    => /\ via \in {"f32_to_i64", "f64_to_i64", "f32_to_i32", "f64_to_i32"}
       /\ result = WidePrimitive
       /\ result = IF TruncInRange(float, WideType)
                   THEN TruncPattern(WideBits)
                   ELSE {WideBits - 1}

\* a finite positive value too large for i64 came back as i64::MIN
C14_Witness ==
    /\ Returned
    /\ active_target = {"target_x86_64_sse"}
    /\ name = "f32_to_i64"
    /\ float.cls = "fin"
    /\ ~float.neg
    /\ ~TruncInRange(float, "i64")
    /\ result = {63}

\* C15: for 2^(w-1) <= f < 2^w a branchless extension has signed1 the
\* sentinel, `f - THRESHOLD` exact, signed2 = trunc(f) - 2^(w-1) in
\* [0, 2^(w-1)), and signed1 | signed2 = trunc(f).
C15_UpperHalf ==
    (/\ Returned
     /\ via \in DOMAIN Branchless
     /\ FGe(float, powi(Branchless[via] - 1, Format(FloatTy)))
     /\ FLt(float, powi(Branchless[via], Format(FloatTy))))
    => LET w == Branchless[via]
       IN  /\ Locals.integer1 = {w - 1}
           /\ Locals.difference = Fin(FALSE, MagSub(float.mag, {w - 1}))
           /\ Locals.integer2 = IntPart \ {w - 1}
           /\ Locals.integer2 \subseteq 0..(w - 2)
           /\ Locals.integer1 \cup Locals.integer2 = IntPart
           /\ result = IntPart

\* f32_to_u32 of a value strictly between 2^31 and 2^32
C15_Witness ==
    /\ Returned
    /\ via = "f32_to_u32"
    /\ FLt(float, powi(32, F32))
    /\ Locals.integer1 = {31}
    /\ Locals.integer2 # {}
    /\ Locals.difference.mag = float.mag \ {31}
    /\ result = {31} \cup Locals.integer2

\* C16: in the else branch of _f32_to_u64_branchful, an argument in range for
\* u64 gives 0 <= float - THRESHOLD_FLOAT < 2^63 and an addition that does not
\* overflow; the addition overflows only for NaN, +infinity and f >= 2^64.
C16_BenignOverflow ==
    (/\ pc = "returned"
     /\ name = "_f32_to_u64_branchful"
     /\ ~x86_64_sse_f32_to_u64_branchful_locals(float).in_range)
    => LET l == x86_64_sse_f32_to_u64_branchful_locals(float)
       IN  /\ in_range(float, "f32", "u64")
              => /\ FLt(power_of_two_f32(63), float)
                 /\ FGe(l.in_range_float, Zero)
                 /\ FLt(l.in_range_float, power_of_two_f32(63))
                 /\ ~l.overflow
                 /\ result = MagAdd(l.integer, {63})
           /\ l.overflow
              => /\ ~in_range(float, "f32", "u64")
                 /\ IsNaN(float) \/ FGe(float, powi(64, F32))

\* the else branch added 2^63 to a non-zero integer without overflow
C16_Witness ==
    /\ pc = "returned"
    /\ name = "_f32_to_u64_branchful"
    /\ in_range(float, "f32", "u64")
    /\ ~x86_64_sse_f32_to_u64_branchful_locals(float).in_range
    /\ x86_64_sse_f32_to_u64_branchful_locals(float).integer # {}
    /\ ~x86_64_sse_f32_to_u64_branchful_locals(float).overflow
    /\ 63 \in result

\* C17 as stated: on a specialized back-end an unsigned conversion whose
\* primitive returned the out-of-range sentinel went through the branchless
\* extension.
C17_Original ==
    (/\ Returned
     /\ Target \in Specialized
     /\ ~IntegerType[Integer].signed
     /\ via # "as"
     /\ ~TruncInRange(float, WideType))
    => via \in DOMAIN Branchless

\* C17: on a specialized back-end only the widest unsigned conversion goes
\* through the branchless extension; a narrower unsigned conversion narrows
\* the primitive's result directly, and returns the low bits of the sentinel,
\* 0, when the argument is outside the wide signed range.
C17_SentinelPaths ==
    (/\ Returned
     /\ Target \in Specialized
     /\ ~IntegerType[Integer].signed
     /\ via # "as")
    => IF IntegerType[Integer].BITS = WideBits
       THEN /\ via \in DOMAIN Branchless
            /\ result = Locals.integer1 \cup (Locals.integer2 \cap Locals.too_large)
       ELSE /\ via \in {"f32_to_i64", "f64_to_i64", "f32_to_i32", "f64_to_i32"}
            /\ result = WidePrimitive \cap (0..(IntegerType[Integer].BITS - 1))
            /\ ~TruncInRange(float, WideType)
               => WidePrimitive = {WideBits - 1} /\ result = {}

\* f32_to_u8(NaN) on the 64-bit back-end narrowed the sentinel directly
C17_Witness ==
    /\ Returned
    /\ active_target = {"target_x86_64_sse"}
    /\ name = "f32_to_u8"
    /\ IsNaN(float)
    /\ via = "f32_to_i64"
    /\ WidePrimitive = {63}
    /\ result = {}

C19_NegativeInputs ==
    (Returned /\ via \in DOMAIN Branchless /\ FLt(float, Zero))
    => LET w == Branchless[via]
       IN  /\ (Locals.integer2 \cap Locals.too_large) \subseteq Locals.integer1
           /\ result = Locals.integer1
           /\ (float.cls = "fin" /\ IntPart # {} /\ MagLess(IntPart, {w - 1}))
              => result = TwosNeg(IntPart, w)
           /\ (float.cls = "fin" /\ IntPart = {}) => result = {}
           /\ (via = "f32_to_u64" /\ float = FromInt(-5)) => result = AllOnes(64) \ {2}

\* f64_to_u32(-5.0) returned 2^32 - 5, the mask passing only the sign bit of signed2
C19_Witness ==
    /\ Returned
    /\ via = "f64_to_u32"
    /\ float = FromInt(-5)
    /\ Locals.integer2 \cap Locals.too_large = {31}
    /\ result = AllOnes(32) \ {2}

\* C20: for NaN, +infinity and finite f >= 2^w a branchless extension has
\* signed1 and signed2 both the sentinel and returns exactly 2^(w-1).
C20_BeyondRange ==
    (/\ Returned
     /\ via \in DOMAIN Branchless
     /\ IsNaN(float) \/ FGe(float, powi(Branchless[via], Format(FloatTy))))
    => LET w == Branchless[via]
       IN  /\ Locals.integer1 = {w - 1}
           /\ Locals.integer2 = {w - 1}
           /\ result = {w - 1}
           /\ result # AllOnes(w)
           /\ result # {}

\* f64_to_u64 of a finite value at or above 2^64 returned 2^63
C20_Witness ==
    /\ Returned
    /\ via = "f64_to_u64"
    /\ float.cls = "fin"
    /\ FGe(float, powi(64, F64))
    /\ Locals.integer2 = {63}
    /\ result = {63}

\* C21: on a specialized back-end, for an argument that is NaN, an infinity,
\* or finite with a truncation outside [-2^(w-1), 2^(w-1) - 1] of the widest
\* supported width w, every conversion to a type narrower than w, signed or
\* unsigned, returns 0, the low bits of the sentinel; the wide signed
\* conversion returns -2^(w-1).
C21_NarrowSentinel ==
    (/\ Returned
     /\ Target \in Specialized
     /\ ~TruncInRange(float, WideType))
    => /\ WidePrimitive = {WideBits - 1}
       /\ Integer \in Narrow[Target]
          => /\ via \in {"f32_to_i64", "f64_to_i64", "f32_to_i32", "f64_to_i32"}
             /\ result = {}
       /\ Integer = WideType => result = {WideBits - 1}

\* f32_to_i32 of a finite value below i64::MIN returned 0 on the 64-bit
\* back-end, where the standard cast gives i32::MIN
C21_Witness ==
    /\ Returned
    /\ active_target = {"target_x86_64_sse"}
    /\ name = "f32_to_i32"
    /\ float.cls = "fin"
    /\ float.neg
    /\ ~TruncInRange(float, "i64")
    /\ x86_64_sse_f32_to_i64(float) = {63}
    /\ result = {}
    /\ FloatAs(float, "i32") = {31}

====
